---- MODULE Spec2Model ----
(***************************************************************************)
(* A model of SL1SSanitizer (sl1s_sanitizer.py): one validation run over   *)
(* an archive, stage by stage.  Entry names, option names and option       *)
(* values are sequences of one-character strings, so that the string       *)
(* operations of the code (startswith, count, rstrip, the name pattern,    *)
(* int, the 05d formatting of the test generator) are computed and not     *)
(* assumed.  Alphabet of the modelled inputs: letters, digits, '_', '-',   *)
(* '.', '/', '%'; no newline and no '(' occur in names or values.          *)
(***************************************************************************)
EXTENDS Integers, Sequences, FiniteSets, TLC

VARIABLES
    archive,        \* what sl1s_file_path points at: "missing", "notzip", "unreadable", "ok"
    file_list,      \* zip_ref.namelist() of an openable archive, in archive order
    config_bytes,   \* content of the config.ini entry: whether it decodes as utf-8, and its lines
    pc,             \* the stage validate_sl1s_file is about to run
    errors,         \* self.errors
    warnings,       \* self.warnings
    image_files,    \* self.image_files
    config,         \* self.config
    result          \* what validate_sl1s_file returned

vars == <<archive, file_list, config_bytes, pc, errors, warnings, image_files, config, result>>

(***************************************************************************)
(* Bounds of the explored inputs.                                          *)
(***************************************************************************)
MaxEntries == 3     \* longest entry list of the layout family
MaxImages == 3      \* most layer images of the naming family
MaxIndex == 3       \* largest layer index of the naming family
MaxRun == 3         \* longest contiguous run of the consistency family
MaxStart == 1       \* largest first index of a contiguous run

(***************************************************************************)
(* Python string primitives                                                *)
(***************************************************************************)
Digits == <<"0", "1", "2", "3", "4", "5", "6", "7", "8", "9">>

UpperCase == <<"A","B","C","D","E","F","G","H","I","J","K","L","M",
               "N","O","P","Q","R","S","T","U","V","W","X","Y","Z">>

LowerCase == <<"a","b","c","d","e","f","g","h","i","j","k","l","m",
               "n","o","p","q","r","s","t","u","v","w","x","y","z">>

IsDigit(c) == \E i \in 1..Len(Digits) : Digits[i] = c

DigitVal(c) == (CHOOSE i \in 1..Len(Digits) : Digits[i] = c) - 1

LowerChar(c) ==
    IF \E i \in 1..Len(UpperCase) : UpperCase[i] = c
    THEN LowerCase[CHOOSE i \in 1..Len(UpperCase) : UpperCase[i] = c]
    ELSE c

Lower(s) == [i \in 1..Len(s) |-> LowerChar(s[i])]

StartsWith(s, p) == Len(s) >= Len(p) /\ SubSeq(s, 1, Len(p)) = p

EndsWith(s, p) == Len(s) >= Len(p) /\ SubSeq(s, Len(s) - Len(p) + 1, Len(s)) = p

HasChar(s, c) == \E i \in 1..Len(s) : s[i] = c

Count(s, c) == Cardinality({i \in 1..Len(s) : s[i] = c})

Contains(s, p) == \E i \in 0..(Len(s) - Len(p)) : SubSeq(s, i + 1, i + Len(p)) = p

\* f.split('/')[0]
SplitFirst(s, c) ==
    IF HasChar(s, c)
    THEN SubSeq(s, 1, (CHOOSE i \in 1..Len(s) : s[i] = c /\ \A j \in 1..(i - 1) : s[j] # c) - 1)
    ELSE s

\* os.path.basename
Basename(s) ==
    IF HasChar(s, "/")
    THEN SubSeq(s, (CHOOSE i \in 1..Len(s) : s[i] = "/" /\ \A j \in (i + 1)..Len(s) : s[j] # "/") + 1, Len(s))
    ELSE s

RECURSIVE RStrip(_, _)
RStrip(s, c) ==
    IF Len(s) > 0 /\ s[Len(s)] = c THEN RStrip(SubSeq(s, 1, Len(s) - 1), c) ELSE s

\* int() of a string of decimal digits
RECURSIVE DigitsToInt(_)
DigitsToInt(s) ==
    IF Len(s) = 0 THEN 0 ELSE 10 * DigitsToInt(SubSeq(s, 1, Len(s) - 1)) + DigitVal(s[Len(s)])

\* whether int(s) succeeds: an optional sign, then digits with single '_' between digits
IntBody(s) == IF Len(s) > 0 /\ s[1] \in {"-", "+"} THEN Tail(s) ELSE s

PyIntOk(s) ==
    LET b == IntBody(s) IN
        /\ Len(b) > 0
        /\ IsDigit(b[1]) /\ IsDigit(b[Len(b)])
        /\ \A i \in 1..Len(b) : IsDigit(b[i]) \/ b[i] = "_"
        /\ \A i \in 1..(Len(b) - 1) : ~(b[i] = "_" /\ b[i + 1] = "_")

PyInt(s) ==
    LET b == IntBody(s)
        d == SelectSeq(b, IsDigit)
    IN  IF Len(s) > 0 /\ s[1] = "-" THEN 0 - DigitsToInt(d) ELSE DigitsToInt(d)

\* f"{i:05d}"
RECURSIVE IntToDigits(_)
IntToDigits(i) ==
    IF i < 10 THEN <<Digits[i + 1]>> ELSE Append(IntToDigits(i \div 10), Digits[(i % 10) + 1])

RECURSIVE ZeroPad(_, _)
ZeroPad(s, w) == IF Len(s) >= w THEN s ELSE ZeroPad(<<"0">> \o s, w)

IndexWidth == 5

Format05d(i) == ZeroPad(IntToDigits(i), IndexWidth)

\* list.sort() / sorted() of integers
RECURSIVE SortedSeq(_)
SortedSeq(s) ==
    IF Len(s) = 0 THEN <<>>
    ELSE LET m == CHOOSE i \in 1..Len(s) : \A j \in 1..Len(s) : s[i] <= s[j]
         IN  <<s[m]>> \o SortedSeq(SubSeq(s, 1, m - 1) \o SubSeq(s, m + 1, Len(s)))

RECURSIVE SortedOfSet(_)
SortedOfSet(S) ==
    IF S = {} THEN <<>>
    ELSE LET m == CHOOSE x \in S : \A y \in S : x <= y
         IN  <<m>> \o SortedOfSet(S \ {m})

Range(s) == {s[i] : i \in 1..Len(s)}

MaxOf(S) == CHOOSE x \in S : \A y \in S : y <= x

(***************************************************************************)
(* The layer-image name pattern  (.+?)(\d{5})\.(png|jpg|jpeg)$  under      *)
(* re.search with re.IGNORECASE: the leftmost start, then the shortest     *)
(* first group.                                                            *)
(***************************************************************************)
ImageExts == {<<"p","n","g">>, <<"j","p","g">>, <<"j","p","e","g">>}

MatchAt(s, i, g) ==
    /\ i + g + IndexWidth <= Len(s)
    /\ \A j \in (i + g)..(i + g + IndexWidth - 1) : IsDigit(s[j])
    /\ s[i + g + IndexWidth] = "."
    /\ Lower(SubSeq(s, i + g + IndexWidth + 1, Len(s))) \in ImageExts

PatternSearch(s) ==
    LET cands == {p \in (1..Len(s)) \X (1..Len(s)) : MatchAt(s, p[1], p[2])} IN
        IF cands = {} THEN [matched |-> FALSE, base |-> <<>>, number |-> <<>>]
        ELSE LET i == CHOOSE a \in {p[1] : p \in cands} : \A p \in cands : a <= p[1]
                 g == CHOOSE b \in {p[2] : p \in {q \in cands : q[1] = i}} :
                          \A p \in {q \in cands : q[1] = i} : b <= p[2]
             IN  [matched |-> TRUE,
                  base |-> SubSeq(s, i, i + g - 1),
                  number |-> SubSeq(s, i + g, i + g + IndexWidth - 1)]

(***************************************************************************)
(* configparser.ConfigParser as _extract_config uses it.  A line of the    *)
(* content is a section header, an option (name, value) or a line that is  *)
(* neither.  A parser holds its sections in order, each with its options,  *)
(* and the options of DEFAULT; "joined" tells whether the values have been *)
(* turned from the lists _read builds into strings.                        *)
(***************************************************************************)
DefaultSect == "DEFAULT"

NoSect == "<none>"

Sec(name) == [t |-> "sec", name |-> name, key |-> <<>>, val |-> <<>>]

Opt(key, val) == [t |-> "opt", name |-> "", key |-> key, val |-> val]

Junk == [t |-> "junk", name |-> "", key |-> <<>>, val |-> <<>>]

NoOptions == [k \in {} |-> <<>>]

\* self.config = None
NoConfig == [present |-> FALSE, sections |-> <<>>, defaults |-> NoOptions, joined |-> TRUE]

\* configparser.ConfigParser()
NewParser == [present |-> TRUE, sections |-> <<>>, defaults |-> NoOptions, joined |-> TRUE]

SectionNames(cfg) == [i \in 1..Len(cfg.sections) |-> cfg.sections[i].name]

HasSection(cfg, name) == \E i \in 1..Len(cfg.sections) : cfg.sections[i].name = name

SectionOpts(cfg, name) ==
    IF name = DefaultSect THEN cfg.defaults
    ELSE cfg.sections[CHOOSE i \in 1..Len(cfg.sections) : cfg.sections[i].name = name].opts

\* RawConfigParser.optionxform
OptionXform(key) == Lower(key)

SetOption(cfg, name, k, v) ==
    IF name = DefaultSect
    THEN [cfg EXCEPT !.defaults = (k :> v) @@ @]
    ELSE LET i == CHOOSE j \in 1..Len(cfg.sections) : cfg.sections[j].name = name
         IN  [cfg EXCEPT !.sections[i].opts = (k :> v) @@ @]

\* one line of RawConfigParser._read (strict); st.exc names the exception raised so far
ReadLine(st, line) ==
    IF st.exc # "none" THEN st
    ELSE IF line.t = "sec" THEN
        IF HasSection(st.cfg, line.name) THEN [st EXCEPT !.exc = "DuplicateSectionError"]
        ELSE IF line.name = DefaultSect THEN [st EXCEPT !.cur = DefaultSect]
        ELSE [st EXCEPT !.cur = line.name,
                        !.cfg.sections = Append(@, [name |-> line.name, opts |-> NoOptions])]
    ELSE IF st.cur = NoSect THEN [st EXCEPT !.exc = "MissingSectionHeaderError"]
    ELSE IF line.t = "opt" THEN
        LET k == OptionXform(line.key) IN
            IF k \in DOMAIN SectionOpts(st.cfg, st.cur)
            THEN [st EXCEPT !.exc = "DuplicateOptionError"]
            ELSE [st EXCEPT !.cfg = SetOption(@, st.cur, k, line.val)]
    ELSE [st EXCEPT !.bad = TRUE]

RECURSIVE ReadLines(_, _)
ReadLines(st, lines) ==
    IF Len(lines) = 0 THEN st ELSE ReadLines(ReadLine(st, Head(lines)), Tail(lines))

\* ConfigParser.read_string on a new parser: the exception ("none" when it returns)
\* and the parser as it is left
ReadString(lines) ==
    LET st == ReadLines([cfg |-> NewParser, cur |-> NoSect, bad |-> FALSE, exc |-> "none"], lines)
    IN  [exc |-> IF st.exc = "none" /\ st.bad THEN "ParsingError" ELSE st.exc,
         cfg |-> st.cfg]

\* the exceptions _read raises before it joins the values
RaisedMidRead(exc) == exc \in {"DuplicateSectionError", "DuplicateOptionError"}

\* SectionProxy.__contains__ -> has_option
HasOption(cfg, name, key) ==
    \/ OptionXform(key) \in DOMAIN SectionOpts(cfg, name)
    \/ OptionXform(key) \in DOMAIN cfg.defaults

\* BasicInterpolation._interpolate_some on a value without "%(": ok is FALSE when
\* it raises InterpolationSyntaxError
RECURSIVE Interpolate(_)
Interpolate(v) ==
    IF ~HasChar(v, "%") THEN [ok |-> TRUE, val |-> v]
    ELSE LET p == CHOOSE i \in 1..Len(v) : v[i] = "%" /\ \A j \in 1..(i - 1) : v[j] # "%"
         IN  IF p < Len(v) /\ v[p + 1] = "%"
             THEN LET rest == Interpolate(SubSeq(v, p + 2, Len(v)))
                  IN  [ok |-> rest.ok, val |-> SubSeq(v, 1, p - 1) \o <<"%">> \o rest.val]
             ELSE [ok |-> FALSE, val |-> <<>>]

\* self.config[section][key]: the section's value, else DEFAULT's, interpolated;
\* a value still held as a list makes the interpolation raise
ParserGet(cfg, name, key) ==
    LET k == OptionXform(key)
        opts == SectionOpts(cfg, name)
        raw == IF k \in DOMAIN opts THEN opts[k] ELSE cfg.defaults[k]
        i == Interpolate(raw)
    IN  IF cfg.joined /\ i.ok
        THEN [found |-> TRUE, raised |-> FALSE, val |-> i.val]
        ELSE [found |-> FALSE, raised |-> TRUE, val |-> <<>>]

NotFound == [found |-> FALSE, raised |-> FALSE, val |-> <<>>]

\* _get_config_value with default=None
GetConfigValue(cfg, section, key) ==
    IF ~cfg.present THEN NotFound
    ELSE IF HasSection(cfg, section) /\ HasOption(cfg, section, key)
    THEN ParserGet(cfg, section, key)
    ELSE IF HasSection(cfg, DefaultSect) /\ HasOption(cfg, DefaultSect, key)
    THEN ParserGet(cfg, DefaultSect, key)
    ELSE LET hits == {i \in 1..Len(cfg.sections) : HasOption(cfg, cfg.sections[i].name, key)}
         IN  IF hits = {} THEN NotFound
             ELSE ParserGet(cfg, cfg.sections[CHOOSE i \in hits : \A j \in hits : i <= j].name, key)

(***************************************************************************)
(* Names the code spells out                                               *)
(***************************************************************************)
ConfigIni == <<"c","o","n","f","i","g",".","i","n","i">>

PrusaslicerIni == <<"p","r","u","s","a","s","l","i","c","e","r",".","i","n","i">>

ThumbnailDir == <<"t","h","u","m","b","n","a","i","l","/">>

PreviewDir == <<"p","r","e","v","i","e","w","/">>

DotPng == <<".","p","n","g">>

DotJpg == <<".","j","p","g">>

DotJpeg == <<".","j","p","e","g">>

JobDirKey == <<"j","o","b","D","i","r">>

NumFastKey == <<"n","u","m","F","a","s","t">>

RenderSect == "layerRenderParams"

MaxLayerNumber == 99999

Err(kind, arg) == [kind |-> kind, arg |-> arg]

KindCount(msgs, kind) == Cardinality({i \in 1..Len(msgs) : msgs[i].kind = kind})

\* the orders in which a set can be iterated
Orders(S) == {q \in [1..Cardinality(S) -> S] : \A x \in S : \E i \in 1..Cardinality(S) : q[i] = x}

(***************************************************************************)
(* _check_zip_structure                                                    *)
(***************************************************************************)
IsReserved(f) == StartsWith(f, ThumbnailDir) \/ StartsWith(f, PreviewDir)

\* a root test that forgets the single-subfolder case
IsRootFile_NoSlashOnly(f) == ~HasChar(f, "/")

IsRootFile(f) == ~HasChar(f, "/") \/ Count(f, "/") = 1

RootFiles(files) == SelectSeq(files, IsRootFile)

\* a subfolder test that exempts thumbnail/ only
InSubfolder_PreviewCounts(f) == HasChar(f, "/") /\ ~StartsWith(f, ThumbnailDir)

InSubfolder(f) == HasChar(f, "/") /\ ~IsReserved(f)

Folders(files) == {SplitFirst(files[i], "/") : i \in {j \in 1..Len(files) : InSubfolder(files[j])}}

(***************************************************************************)
(* _check_required_files                                                   *)
(***************************************************************************)
RequiredFiles == <<ConfigIni, PrusaslicerIni>>

RequiredFound(files, req) ==
    \E i \in 1..Len(files) :
        Contains(files[i], req) /\ EndsWith(files[i], req) /\ ~StartsWith(files[i], ThumbnailDir)

RECURSIVE RequiredErrors(_, _)
RequiredErrors(files, reqs) ==
    IF Len(reqs) = 0 THEN <<>>
    ELSE (IF RequiredFound(files, Head(reqs)) THEN <<>> ELSE <<Err("required_missing", Head(reqs))>>)
         \o RequiredErrors(files, Tail(reqs))

(***************************************************************************)
(* _extract_config                                                         *)
(***************************************************************************)
IsConfigFile(f) == EndsWith(f, ConfigIni) /\ ~StartsWith(f, ThumbnailDir)

ConfigFiles(files) == SelectSeq(files, IsConfigFile)

\* '[DEFAULT]\n' + config_content
Wrapped(lines) == <<Sec(DefaultSect)>> \o lines

\* the two attempts: the exception that escapes them ("none" when a parse returns)
\* and the parser self.config is left bound to
ParseAttempts(lines) ==
    LET first == ReadString(lines) IN
        IF first.exc = "MissingSectionHeaderError" THEN ReadString(Wrapped(lines)) ELSE first

(***************************************************************************)
(* _is_layer_image, _check_image_files                                     *)
(***************************************************************************)
IsLayerImage(f) ==
    /\ \/ EndsWith(Lower(f), DotPng) \/ EndsWith(Lower(f), DotJpg) \/ EndsWith(Lower(f), DotJpeg)
    /\ ~IsReserved(f)
    /\ ~HasChar(f, "/")

LayerImages(files) == SelectSeq(files, IsLayerImage)

Matches(f) == PatternSearch(Basename(f)).matched

RECURSIVE PatternErrors(_)
PatternErrors(imgs) ==
    IF Len(imgs) = 0 THEN <<>>
    ELSE (IF Matches(Head(imgs)) THEN <<>> ELSE <<Err("bad_pattern", Head(imgs))>>)
         \o PatternErrors(Tail(imgs))

BaseNames(imgs) == {PatternSearch(Basename(f)).base : f \in {g \in Range(imgs) : Matches(g)}}

\* numbers, in archive order
Numbers(imgs) ==
    LET m == SelectSeq(imgs, Matches)
    IN  [i \in 1..Len(m) |-> PyInt(PatternSearch(Basename(m[i])).number)]

\* an expected run that always starts at 0
ExpectedSequence_FromZero(sorted) == [i \in 1..Len(sorted) |-> i - 1]

ExpectedSequence(sorted) == [i \in 1..Len(sorted) |-> sorted[1] + i - 1]

\* the set difference taken the wrong way round
Missing_Reversed(sorted) == Range(sorted) \ Range(ExpectedSequence(sorted))

Missing(sorted) == Range(ExpectedSequence(sorted)) \ Range(sorted)

SequenceErrors(sorted) ==
    IF sorted # ExpectedSequence(sorted) /\ Missing(sorted) # {}
    THEN <<Err("missing_numbers", SortedOfSet(Missing(sorted)))>>
    ELSE <<>>

OutOfRange(num) == num < 0 \/ num > MaxLayerNumber

RangeErrors(sorted) ==
    LET bad == SelectSeq(sorted, OutOfRange)
    IN  [i \in 1..Len(bad) |-> Err("out_of_range", bad[i])]

ImageErrors(imgs) ==
    LET numbers == SortedSeq(Numbers(imgs)) IN
        PatternErrors(imgs)
        \o (IF Cardinality(BaseNames(imgs)) > 1 THEN <<Err("multiple_bases", BaseNames(imgs))>> ELSE <<>>)
        \o (IF Len(numbers) > 0 THEN SequenceErrors(numbers) \o RangeErrors(numbers) ELSE <<>>)

ImageWarnings(imgs) ==
    LET numbers == SortedSeq(Numbers(imgs)) IN
        IF Len(numbers) > 0 /\ numbers[1] # 0
        THEN <<Err("not_from_zero", Format05d(numbers[1]))>>
        ELSE <<>>

(***************************************************************************)
(* _check_config_consistency                                               *)
(***************************************************************************)
\* .rstrip('_').rstrip('-')
StripBase(s) == RStrip(RStrip(s, "_"), "-")

JobDirErrors(job_dir, imgs) ==
    IF job_dir.found /\ Len(job_dir.val) > 0 /\ Len(imgs) > 0
    THEN LET match == PatternSearch(Basename(imgs[1])) IN
            IF match.matched /\ StripBase(match.base) # StripBase(job_dir.val)
            THEN <<Err("base_mismatch", <<StripBase(match.base), StripBase(job_dir.val)>>)>>
            ELSE <<>>
    ELSE <<>>

CountErrors(num_fast, imgs) ==
    IF num_fast # Len(imgs) THEN <<Err("count_mismatch", <<num_fast, Len(imgs)>>)>> ELSE <<>>

LastErrors(num_fast, imgs) ==
    LET numbers == Numbers(imgs) IN
        IF Len(imgs) > 0 /\ Len(numbers) > 0 /\ MaxOf(Range(numbers)) # num_fast - 1
        THEN <<Err("last_mismatch", <<MaxOf(Range(numbers)), num_fast - 1>>)>>
        ELSE <<>>

NumFastErrors(num_fast_str, imgs) ==
    IF num_fast_str.found /\ Len(num_fast_str.val) > 0
    THEN IF PyIntOk(num_fast_str.val)
         THEN CountErrors(PyInt(num_fast_str.val), imgs) \o LastErrors(PyInt(num_fast_str.val), imgs)
         ELSE <<Err("numfast_not_int", num_fast_str.val)>>
    ELSE <<>>

\* the body of the try: a lookup that raises ends it with the catch-all's error
ConsistencyErrors(cfg, imgs) ==
    LET job_dir == GetConfigValue(cfg, RenderSect, JobDirKey)
        num_fast_str == GetConfigValue(cfg, RenderSect, NumFastKey)
    IN  IF job_dir.raised THEN <<Err("consistency_error", "jobDir")>>
        ELSE IF num_fast_str.raised
        THEN JobDirErrors(job_dir, imgs) \o <<Err("consistency_error", "numFast")>>
        ELSE JobDirErrors(job_dir, imgs) \o NumFastErrors(num_fast_str, imgs)

(***************************************************************************)
(* The inputs explored: four families of (archive, entry names, config).   *)
(***************************************************************************)
\* test.py: f'{base_name}{i:05d}.png'
ImageName(base, i, ext) == base \o Format05d(i) \o ext

Chr(c) == <<c>>

\* every arrangement of at most n distinct members of pool
RECURSIVE Arrangements(_, _)
Arrangements(pool, n) ==
    IF n = 0 THEN {<<>>}
    ELSE LET shorter == Arrangements(pool, n - 1)
         IN  shorter \cup {Append(q, x) : q \in shorter, x \in pool}

Distinct(q) == \A i, j \in 1..Len(q) : i # j => q[i] # q[j]

Reverse(q) == [i \in 1..Len(q) |-> q[Len(q) + 1 - i]]

\* the members of a sequence at the positions in P, in order
RECURSIVE Pick(_, _)
Pick(q, P) ==
    IF Len(q) = 0 THEN <<>>
    ELSE Pick(SubSeq(q, 1, Len(q) - 1), P) \o (IF Len(q) \in P THEN <<q[Len(q)]>> ELSE <<>>)

Options(jd, nf) ==
    [i \in 1..Len(jd) |-> Opt(JobDirKey, jd[i])] \o [i \in 1..Len(nf) |-> Opt(NumFastKey, nf[i])]

Forms == {"sectioned", "bare", "other", "default", "split", "dup_option", "dup_section",
          "junk", "bare_dup", "bare_junk", "undecodable"}

FormLines(form, jd, nf) ==
    LET opts == Options(jd, nf) IN
    CASE form = "sectioned" -> <<Sec(RenderSect)>> \o opts
      [] form = "bare" -> opts
      [] form = "other" -> <<Sec("other")>> \o opts
      [] form = "default" -> <<Sec(DefaultSect)>> \o opts
      [] form = "split" -> <<Sec(DefaultSect)>> \o Options(jd, <<>>) \o <<Sec("other")>> \o Options(<<>>, nf)
      [] form = "dup_option" -> <<Sec(RenderSect)>> \o opts \o opts
      [] form = "dup_section" -> <<Sec(RenderSect)>> \o opts \o <<Sec(RenderSect)>>
      [] form = "junk" -> <<Sec(RenderSect)>> \o opts \o <<Junk>>
      [] form = "bare_dup" -> opts \o opts
      [] form = "bare_junk" -> opts \o <<Junk>>
      [] OTHER -> opts

ConfigContent(form, jd, nf) ==
    [decodable |-> form # "undecodable", lines |-> FormLines(form, jd, nf)]

PlainConfig == ConfigContent("sectioned", <<Chr("f")>>, <<Chr("1")>>)

Input(a, files, content) == [archive |-> a, file_list |-> files, config_bytes |-> content]

\* archives that do not open
BrokenInputs == {Input(a, <<>>, PlainConfig) : a \in {"missing", "notzip", "unreadable"}}

\* layout family: entry names at every depth, reserved or not
LayoutPool ==
    { ConfigIni,
      PrusaslicerIni,
      ThumbnailDir \o Chr("t") \o DotPng,
      PreviewDir \o Chr("p") \o DotPng,
      ThumbnailDir \o <<"a", "/">> \o Chr("t") \o DotPng,
      <<"j", "o", "b", "/">> \o ImageName(Chr("f"), 0, DotPng),
      <<"j", "o", "b", "/", "s", "u", "b", "/">> \o ImageName(Chr("f"), 0, DotPng),
      <<"k", "/">> \o ConfigIni,
      ImageName(Chr("f"), 0, DotPng) }

LayoutInputs == {Input("ok", files, PlainConfig) : files \in {q \in Arrangements(LayoutPool, MaxEntries) : Distinct(q)}}

\* naming family: layer images with gaps, repeats, several base names, bad names
NamingPool ==
    [i \in 1..(MaxIndex + 1) |-> ImageName(Chr("f"), i - 1, DotPng)]
    \o << ImageName(Chr("f"), 1, DotJpg),
          ImageName(Chr("F"), 2, <<".", "P", "N", "G">>),
          ImageName(<<"f", "1">>, 0, DotJpeg),
          ImageName(<<"f", "1">>, 1, DotJpeg),
          ImageName(<<>>, 0, DotPng),
          <<"x">> \o DotPng >>

NamingLists ==
    LET picks == {Pick(NamingPool, P) : P \in {Q \in SUBSET (1..Len(NamingPool)) : Cardinality(Q) <= MaxImages}}
    IN  picks \cup {Reverse(q) : q \in picks}

NamingInputs == {Input("ok", <<ConfigIni, PrusaslicerIni>> \o imgs, PlainConfig) : imgs \in NamingLists}

\* consistency families: a contiguous run of one base name against a config
RunBases == {Chr("f"), <<"f", "_">>, <<"f", "-">>, <<"f", "_", "-">>, <<"f", "-", "_">>, Chr("g")}

RunOf(base, k, n) == [i \in 1..n |-> ImageName(base, k + i - 1, DotPng)]

RunLists ==
    {RunOf(b, k, n) : b \in RunBases, k \in 0..MaxStart, n \in 1..MaxRun}
    \cup {<<<<"x">> \o DotPng>> \o RunOf(Chr("f"), 0, n) : n \in 1..MaxRun}

JobDirs == {<<>>} \cup {<<v>> : v \in RunBases \cup {<<"f", "%">>, <<"f", "%", "%">>, <<>>}}

NumFasts == {<<>>} \cup {<<IntToDigits(n)>> : n \in 1..(MaxRun + 1)} \cup {<<Chr("x")>>, <<<<"-", "1">>>>, <<<<>>>>}

ValueInputs ==
    {Input("ok", <<ConfigIni, PrusaslicerIni>> \o imgs, ConfigContent(form, jd, nf)) :
        imgs \in RunLists, form \in {"sectioned", "bare"}, jd \in JobDirs, nf \in NumFasts}

FormInputs ==
    {Input("ok", <<ConfigIni, PrusaslicerIni>> \o RunOf(Chr("f"), 0, n), ConfigContent(form, jd, nf)) :
        n \in 1..MaxRun, form \in Forms,
        jd \in {<<>>, <<Chr("f")>>, <<Chr("g")>>}, nf \in {<<>>, <<Chr("1")>>, <<Chr("2")>>}}

Inputs == BrokenInputs \cup LayoutInputs \cup NamingInputs \cup ValueInputs \cup FormInputs

(***************************************************************************)
(* The run: __init__, then validate_sl1s_file stage by stage               *)
(***************************************************************************)
Init ==
    /\ \E inp \in Inputs :
        /\ archive = inp.archive
        /\ file_list = inp.file_list
        /\ config_bytes = inp.config_bytes
    /\ pc = "exists"
    /\ errors = <<>>
    /\ warnings = <<>>
    /\ image_files = <<>>
    /\ config = NoConfig
    /\ result = "running"

inputs == <<archive, file_list, config_bytes>>

CheckFileExists ==
    /\ pc = "exists"
    /\ errors' = IF archive = "missing" THEN Append(errors, Err("not_found", archive)) ELSE errors
    /\ pc' = IF Len(errors') > 0 THEN "report" ELSE "zip"
    /\ UNCHANGED <<inputs, warnings, image_files, config, result>>

CheckZipStructure ==
    /\ pc = "zip"
    /\ IF archive # "ok"
       THEN /\ errors' = Append(errors, Err(IF archive = "notzip" THEN "not_a_zip" ELSE "zip_read_error", archive))
            /\ UNCHANGED warnings
       ELSE IF Len(RootFiles(file_list)) = 0
       THEN /\ errors' = Append(errors, Err("empty_or_nested", archive))
            /\ UNCHANGED warnings
       ELSE /\ \E q \in Orders(Folders(file_list)) :
                warnings' = warnings \o [i \in 1..Cardinality(Folders(file_list)) |-> Err("subfolder", q[i])]
            /\ UNCHANGED errors
    /\ pc' = "required"
    /\ UNCHANGED <<inputs, image_files, config, result>>

CheckRequiredFiles ==
    /\ pc = "required"
    /\ errors' = IF archive # "ok"
                 THEN Append(errors, Err("required_check_error", archive))
                 ELSE errors \o RequiredErrors(file_list, RequiredFiles)
    /\ pc' = "config"
    /\ UNCHANGED <<inputs, warnings, image_files, config, result>>

ExtractConfig ==
    /\ pc = "config"
    /\ IF archive # "ok"
       THEN /\ errors' = Append(errors, Err("config_read_error", archive))
            /\ UNCHANGED config
       ELSE IF Len(ConfigFiles(file_list)) = 0
       THEN /\ errors' = Append(errors, Err("config_not_found", archive))
            /\ UNCHANGED config
       ELSE IF ~config_bytes.decodable
       THEN /\ errors' = Append(errors, Err("config_read_error", "UnicodeDecodeError"))
            /\ UNCHANGED config
       ELSE LET parsed == ParseAttempts(config_bytes.lines) IN
            /\ errors' = IF parsed.exc = "none" THEN errors
                         ELSE Append(errors, Err("config_read_error", parsed.exc))
            /\ \E joined \in BOOLEAN :
                /\ ~joined => RaisedMidRead(parsed.exc)
                /\ config' = [parsed.cfg EXCEPT !.joined = joined]
    /\ pc' = "images"
    /\ UNCHANGED <<inputs, warnings, image_files, result>>

CheckImageFiles ==
    /\ pc = "images"
    /\ IF archive # "ok"
       THEN /\ errors' = Append(errors, Err("image_check_error", archive))
            /\ UNCHANGED <<warnings, image_files>>
       ELSE /\ image_files' = LayerImages(file_list)
            /\ IF Len(image_files') = 0
               THEN /\ warnings' = Append(warnings, Err("no_images", archive))
                    /\ UNCHANGED errors
               ELSE /\ errors' = errors \o ImageErrors(image_files')
                    /\ warnings' = warnings \o ImageWarnings(image_files')
    /\ pc' = "consistency"
    /\ UNCHANGED <<inputs, config, result>>

CheckConfigConsistency ==
    /\ pc = "consistency"
    /\ errors' = IF config.present THEN errors \o ConsistencyErrors(config, image_files) ELSE errors
    /\ pc' = "report"
    /\ UNCHANGED <<inputs, warnings, image_files, config, result>>

GenerateReport ==
    /\ pc = "report"
    /\ result' = IF Len(errors) = 0 THEN "True" ELSE "False"
    /\ pc' = "done"
    /\ UNCHANGED <<inputs, errors, warnings, image_files, config>>

Next ==
    \/ CheckFileExists
    \/ CheckZipStructure
    \/ CheckRequiredFiles
    \/ ExtractConfig
    \/ CheckImageFiles
    \/ CheckConfigConsistency
    \/ GenerateReport

Spec == Init /\ [][Next]_vars

(***************************************************************************)
(* Vocabulary of the properties                                            *)
(***************************************************************************)
LaterStageKinds ==
    {"required_missing", "required_check_error", "config_not_found", "config_read_error",
     "bad_pattern", "multiple_bases", "missing_numbers", "out_of_range", "image_check_error",
     "base_mismatch", "count_mismatch", "last_mismatch", "numfast_not_int", "consistency_error"}

ImageStageKinds == {"bad_pattern", "multiple_bases", "missing_numbers", "out_of_range", "image_check_error"}

ConsistencyKinds == {"base_mismatch", "count_mismatch", "last_mismatch", "numfast_not_int", "consistency_error"}

ParseFailures == {"DuplicateSectionError", "DuplicateOptionError", "ParsingError"}

KindsCount(msgs, kinds) == Cardinality({i \in 1..Len(msgs) : msgs[i].kind \in kinds})

\* every trailing '_' and '-' removed, in any order and mix
RECURSIVE FullStrip(_)
FullStrip(s) ==
    IF Len(s) > 0 /\ s[Len(s)] \in {"_", "-"} THEN FullStrip(SubSeq(s, 1, Len(s) - 1)) ELSE s

\* the entry names are <base>k .. <base>(k+n-1), five digits each, in any order
IsRunOf(imgs, base, k) ==
    /\ Len(imgs) >= 1
    /\ Cardinality(Range(imgs)) = Len(imgs)
    /\ \A i \in 0..(Len(imgs) - 1) :
          \E ext \in {DotPng, DotJpg, DotJpeg} : ImageName(base, k + i, ext) \in Range(imgs)

Prefixes(f) == {SubSeq(f, 1, j) : j \in 1..Len(f)}

Starts == 0..(MaxIndex + MaxStart + 1)

\* n is the top-level folder of entry f
TopFolderOf(f, n) == ~HasChar(n, "/") /\ StartsWith(f, n \o <<"/">>)

NestedEntries == {i \in 1..Len(file_list) : HasChar(file_list[i], "/") /\ ~IsReserved(file_list[i])}

SubfolderWarnings(n) == Cardinality({i \in 1..Len(warnings) : warnings[i].kind = "subfolder" /\ warnings[i].arg = n})

OneWarningPerFolder ==
    /\ \A i \in NestedEntries : \A n \in Prefixes(file_list[i]) :
          TopFolderOf(file_list[i], n) => SubfolderWarnings(n) = 1
    /\ \A j \in 1..Len(warnings) :
          warnings[j].kind = "subfolder" =>
              \E i \in NestedEntries : TopFolderOf(file_list[i], warnings[j].arg)

AllDeep == \A i \in 1..Len(file_list) : Count(file_list[i], "/") >= 2

AllReserved == \A i \in 1..Len(file_list) : IsReserved(file_list[i])

(***************************************************************************)
(* C1.  A missing path, or a path that is not a valid archive, ends the    *)
(* run with exactly one error, none of it from a later stage.              *)
(***************************************************************************)
C1_OneFatalError ==
    (pc = "done" /\ archive # "ok") =>
        /\ Len(errors) = 1
        /\ KindsCount(errors, LaterStageKinds) = 0

(***************************************************************************)
(* C2.  A sectioned config.ini whose jobDir equals the base name up to     *)
(* trailing '_'/'-' and whose numFast is N, a prusaslicer.ini and the N    *)
(* images <base>00000 .. <base>(N-1) validate with no error, no warning,   *)
(* and True.                                                               *)
(***************************************************************************)
IsValidArchive ==
    /\ archive = "ok"
    /\ Len(file_list) > 2
    /\ SubSeq(file_list, 1, 2) = <<ConfigIni, PrusaslicerIni>>
    /\ config_bytes.decodable
    /\ \E base \in Prefixes(file_list[3]) :
          /\ file_list = <<ConfigIni, PrusaslicerIni>> \o RunOf(base, 0, Len(file_list) - 2)
          /\ Len(config_bytes.lines) = 3
          /\ config_bytes.lines[1] = Sec(RenderSect)
          /\ config_bytes.lines[2].t = "opt"
          /\ config_bytes.lines[2].key = JobDirKey
          /\ FullStrip(config_bytes.lines[2].val) = FullStrip(base)
          /\ config_bytes.lines[3] = Opt(NumFastKey, IntToDigits(Len(file_list) - 2))

C2_ValidArchivePasses ==
    (pc = "done" /\ IsValidArchive) =>
        /\ Len(errors) = 0
        /\ Len(warnings) = 0
        /\ result = "True"

(***************************************************************************)
(* C3.  The options under an explicit [layerRenderParams] header and the   *)
(* same options with no header (wrapped by _extract_config) give the same  *)
(* _get_config_value('layerRenderParams', key) for jobDir and numFast.     *)
(***************************************************************************)
IsSectioned(lines) ==
    /\ Len(lines) >= 1
    /\ lines[1] = Sec(RenderSect)
    /\ \A i \in 2..Len(lines) : lines[i].t = "opt"
    /\ \A i, j \in 2..Len(lines) : i # j => OptionXform(lines[i].key) # OptionXform(lines[j].key)

C3_SectionedBareSameLookup ==
    (pc = "images" /\ archive = "ok" /\ config_bytes.decodable /\ config.present
        /\ IsSectioned(config_bytes.lines)) =>
        \A key \in {JobDirKey, NumFastKey} :
            GetConfigValue(config, RenderSect, key)
                = GetConfigValue(ParseAttempts(Tail(config_bytes.lines)).cfg, RenderSect, key)

(***************************************************************************)
(* C4.  Original: an openable archive whose entries are all under          *)
(* 'thumbnail/' or 'preview/' (or that has no entry) gets the              *)
(* 'empty or nested' error.                                                *)
(***************************************************************************)
C4_ReservedOnlyIsFatal ==
    (pc = "required" /\ archive = "ok" /\ AllReserved) =>
        KindCount(errors, "empty_or_nested") = 1

(***************************************************************************)
(* C4, amended.  An openable archive gets the 'empty or nested' error,     *)
(* once, exactly when none of its entry names has fewer than two '/'       *)
(* (which includes the archive with no entry); reserved entries count      *)
(* like any other.                                                         *)
(***************************************************************************)
C4_DeepOnlyIsFatal ==
    (pc = "required" /\ archive = "ok") =>
        KindCount(errors, "empty_or_nested") = (IF AllDeep THEN 1 ELSE 0)

C4_Witness ==
    /\ pc = "required" /\ archive = "ok"
    /\ Len(file_list) > 0 /\ AllReserved /\ AllDeep
    /\ KindCount(errors, "empty_or_nested") = 1

(***************************************************************************)
(* C5.  With jobDir present and a first layer image that has a base name,  *)
(* the base-name mismatch error is appended if and only if the base name   *)
(* and jobDir differ after every trailing '_' and '-' is removed.          *)
(***************************************************************************)
C5_StripsAnyMix ==
    LET job_dir == GetConfigValue(config, RenderSect, JobDirKey) IN
    (pc = "report" /\ config.present /\ job_dir.found /\ Len(job_dir.val) > 0
        /\ Len(image_files) > 0 /\ Matches(image_files[1])) =>
        KindCount(errors, "base_mismatch")
            = (IF FullStrip(PatternSearch(Basename(image_files[1])).base) # FullStrip(job_dir.val)
               THEN 1 ELSE 0)

(***************************************************************************)
(* C6.  When the layer images are exactly <base>k .. <base>(k+N-1) for one *)
(* non-empty base name, _check_image_files appends no error, and the       *)
(* 'doesn't start at 00000' warning if and only if k > 0.                  *)
(***************************************************************************)
C6_ContiguousRunIsClean ==
    (pc = "consistency" /\ archive = "ok" /\ Len(image_files) > 0) =>
        \A base \in Prefixes(image_files[1]) : \A k \in Starts :
            IsRunOf(image_files, base, k) =>
                /\ KindsCount(errors, ImageStageKinds) = 0
                /\ KindCount(warnings, "not_from_zero") = (IF k > 0 THEN 1 ELSE 0)

C6_Witness ==
    /\ pc = "consistency" /\ archive = "ok" /\ Len(image_files) >= 2
    /\ \E base \in Prefixes(image_files[1]) : \E k \in Starts :
          k > 0 /\ IsRunOf(image_files, base, k)
    /\ KindCount(warnings, "not_from_zero") = 1
    /\ Numbers(image_files)[1] > Numbers(image_files)[2]

(***************************************************************************)
(* C7.  With m the least parsed index and c the number of parsed indices,  *)
(* one missing-index error is appended when the indices are not exactly    *)
(* m .. m+c-1 and none otherwise; its list is never empty and is, in       *)
(* ascending order, {m .. m+c-1} minus the observed indices.               *)
(***************************************************************************)
C7_MissingIsSetDifference ==
    (pc = "consistency" /\ archive = "ok") =>
        LET nums == Numbers(image_files)
            c == Len(nums)
            m == IF c = 0 THEN 0 ELSE CHOOSE x \in Range(nums) : \A y \in Range(nums) : x <= y
            run == m..(m + c - 1)
        IN  /\ KindCount(errors, "missing_numbers") = (IF c > 0 /\ Range(nums) # run THEN 1 ELSE 0)
            /\ \A i \in 1..Len(errors) :
                  errors[i].kind = "missing_numbers" =>
                      /\ Len(errors[i].arg) > 0
                      /\ Range(errors[i].arg) = run \ Range(nums)
                      /\ \A a, b \in 1..Len(errors[i].arg) : a < b => errors[i].arg[a] < errors[i].arg[b]

C7_Witness ==
    /\ pc = "consistency" /\ archive = "ok"
    /\ Len(Numbers(image_files)) = 3
    /\ Cardinality(Range(Numbers(image_files))) = 2
    /\ KindCount(errors, "missing_numbers") = 1

(***************************************************************************)
(* C8.  When numFast is present and parses to an integer n, the count      *)
(* error is appended once if and only if n differs from the number of      *)
(* layer images, and the last-index error if and only if an index was      *)
(* parsed and the largest differs from n - 1.                              *)
(***************************************************************************)
C8_IndependentChecks ==
    LET num_fast_str == GetConfigValue(config, RenderSect, NumFastKey)
        n == PyInt(num_fast_str.val)
        nums == Numbers(image_files)
    IN  (pc = "report" /\ config.present /\ num_fast_str.found /\ PyIntOk(num_fast_str.val)) =>
            /\ KindCount(errors, "count_mismatch") = (IF n # Len(image_files) THEN 1 ELSE 0)
            /\ KindCount(errors, "last_mismatch")
                  = (IF Len(nums) > 0 /\ MaxOf(Range(nums)) # n - 1 THEN 1 ELSE 0)

(***************************************************************************)
(* C9.  When _extract_config records 'Error reading config.ini' for a      *)
(* parse failure other than a missing section header, the config is left   *)
(* empty and _check_config_consistency appends nothing.                    *)
(***************************************************************************)
C9_FailedParseSkipsConsistency ==
    (pc = "report"
        /\ \E i \in 1..Len(errors) :
              errors[i].kind = "config_read_error" /\ errors[i].arg \in ParseFailures) =>
        /\ ~config.present
        /\ KindsCount(errors, ConsistencyKinds) = 0

(***************************************************************************)
(* C10.  Original: whenever an entry outside 'thumbnail/' and 'preview/'   *)
(* lies under a folder, at any depth, the listing check appends one        *)
(* warning per distinct top-level folder of those entries and no error.    *)
(***************************************************************************)
C10_NestingNeverFatal ==
    (pc = "required" /\ archive = "ok" /\ NestedEntries # {}) =>
        /\ OneWarningPerFolder
        /\ Len(errors) = 0

(***************************************************************************)
(* C10, amended.  The same, for archives in which some entry name has      *)
(* fewer than two '/'; when every entry name has two or more, the check    *)
(* appends the 'empty or nested' error and no warning.                     *)
(***************************************************************************)
C10_ShallowNestingWarns ==
    (pc = "required" /\ archive = "ok" /\ NestedEntries # {}) =>
        IF AllDeep
        THEN KindCount(errors, "empty_or_nested") = 1 /\ Len(warnings) = 0
        ELSE OneWarningPerFolder /\ Len(errors) = 0

C10_Witness ==
    /\ pc = "required" /\ archive = "ok" /\ ~AllDeep
    /\ Cardinality({SplitFirst(file_list[i], "/") : i \in NestedEntries}) = 2
    /\ \E i \in NestedEntries : Count(file_list[i], "/") >= 2
    /\ KindCount(warnings, "subfolder") = 2
    /\ Len(errors) = 0

====
